---- MODULE Spec2Model ----
(***************************************************************************)
(* eslint-disable-scanner: the CLI entry point (main) and runChecker.      *)
(*                                                                         *)
(* Text is modelled character by character: a string is a sequence of     *)
(* one-character strings, so the two directive regular expressions, the   *)
(* split(',') / trim() / filter(Boolean) pipeline, split('\n') and         *)
(* indexOf are computed on the characters exactly as the code computes    *)
(* them.  The lint engine and the file system are the environment: their  *)
(* answers are chosen when the code asks.                                  *)
(***************************************************************************)
EXTENDS Integers, Sequences, FiniteSets, TLC

(***************************************************************************)
(* Bounds of the model.                                                    *)
(***************************************************************************)
\* Number of files the glob discovers.
MaxFiles == 2

(***************************************************************************)
(* Character-level string primitives (JavaScript String methods).          *)
(***************************************************************************)
\* \s of a JavaScript regular expression, and the characters trim() strips
\* (those of them that the modelled files hold).
IsSpace(c) == c \in {" ", "\t", "\n", "\r"}

\* The line terminators that "." of a regular expression does not match.
LineTerminators == {"\n", "\r"}

\* Whether the literal lit occurs in s starting at (1-based) position i.
StartsWithAt(s, i, lit) ==
  /\ i >= 1
  /\ i + Len(lit) - 1 <= Len(s)
  /\ \A k \in 1..Len(lit) : s[i + k - 1] = lit[k]

\* First position >= i of s that is not whitespace (Len(s)+1 when none):
\* where a greedy \s* or \s+ started at i stops.
SkipSpaces(s, i) ==
  LET stops == {j \in i..Len(s) : ~IsSpace(s[j])}
  IN  IF stops = {} THEN Len(s) + 1
      ELSE CHOOSE j \in stops : \A k \in stops : j <= k

\* First position >= i of s holding a character of set cs (0 when none).
FirstOf(s, i, cs) ==
  LET hits == {j \in i..Len(s) : s[j] \in cs}
  IN  IF hits = {} THEN 0
      ELSE CHOOSE j \in hits : \A k \in hits : j <= k

\* String.prototype.indexOf: 0-based index of the first occurrence, or -1.
IndexOf(s, sub) ==
  LET hits == {j \in 1..Len(s) + 1 : StartsWithAt(s, j, sub)}
  IN  IF hits = {} THEN -1
      ELSE (CHOOSE j \in hits : \A k \in hits : j <= k) - 1

\* String.prototype.trim.
Trim(s) ==
  LET keep == {j \in 1..Len(s) : ~IsSpace(s[j])}
  IN  IF keep = {} THEN <<>>
      ELSE SubSeq(s, CHOOSE j \in keep : \A k \in keep : j <= k,
                     CHOOSE j \in keep : \A k \in keep : j >= k)

\* String.prototype.split with a one-character separator.
RECURSIVE Split(_, _)
Split(s, sep) ==
  LET at == FirstOf(s, 1, {sep})
  IN  IF at = 0 THEN <<s>>
      ELSE <<SubSeq(s, 1, at - 1)>> \o Split(SubSeq(s, at + 1, Len(s)), sep)

\* rulesStr.split(',').map((r) => r.trim()).filter(Boolean)
ParseRules(rulesStr) ==
  LET parts   == Split(rulesStr, ",")
      trimmed == [k \in 1..Len(parts) |-> Trim(parts[k])]
  IN  SelectSeq(trimmed, LAMBDA r : r /= <<>>)

(***************************************************************************)
(* The literals of the two regular expressions.                            *)
(***************************************************************************)
Marker == <<"e","s","l","i","n","t","-","d","i","s","a","b","l","e">>
QualNextLine == <<"-","n","e","x","t","-","l","i","n","e">>
QualLine == <<"-","l","i","n","e">>
BlockOpen == <<"/","*">>

(***************************************************************************)
(* blockDisableRegex: slash star, optional whitespace, the marker, at      *)
(* least one whitespace, a capture of characters other than a star, then   *)
(* star slash; global flag.  BlockMatchAt(s, i) is the match anchored at   *)
(* i: [ok, rulesStr, next], next being lastIndex after the match.  The     *)
(* whitespace runs are greedy and the capture cannot hold a star, so the   *)
(* match succeeds exactly when the first star after the marker's           *)
(* whitespace is followed by a slash.                                      *)
(***************************************************************************)
NoMatch == [ok |-> FALSE, rulesStr |-> <<>>, next |-> 0]

BlockMatchAt(s, i) ==
  IF ~StartsWithAt(s, i, BlockOpen) THEN NoMatch
  ELSE
    LET m == SkipSpaces(s, i + 2)
    IN  IF ~StartsWithAt(s, m, Marker) THEN NoMatch
        ELSE
          LET w == m + Len(Marker)
          IN  IF w > Len(s) \/ ~IsSpace(s[w]) THEN NoMatch
              ELSE
                LET c    == SkipSpaces(s, w)
                    star == FirstOf(s, c, {"*"})
                IN  IF star = 0 \/ star + 1 > Len(s) \/ s[star + 1] /= "/"
                    THEN NoMatch
                    ELSE [ok |-> TRUE,
                          rulesStr |-> SubSeq(s, c, star - 1),
                          next |-> star + 2]

\* The while loop over blockDisableRegex.exec(content): the captures of the
\* successive matches, searching from position i.
RECURSIVE BlockMatchesFrom(_, _)
BlockMatchesFrom(s, i) ==
  IF i > Len(s) THEN <<>>
  ELSE LET m == BlockMatchAt(s, i)
       IN  IF m.ok THEN <<m.rulesStr>> \o BlockMatchesFrom(s, m.next)
           ELSE BlockMatchesFrom(s, i + 1)

BlockMatches(content) == BlockMatchesFrom(content, 1)

(***************************************************************************)
(* The line regular expression: the marker, an optional -next-line or      *)
(* -line qualifier, at least one whitespace, and a capture of the rest of  *)
(* the line.  LineMatchAt(line, i) is the match anchored at i.  The        *)
(* qualifier is tried as -next-line, then -line, then empty, each needing  *)
(* whitespace right after it; the capture runs to the end of the line or   *)
(* to the first line terminator.                                           *)
(***************************************************************************)
LineMatchAt(line, i) ==
  IF ~StartsWithAt(line, i, Marker) THEN NoMatch
  ELSE
    LET e == i + Len(Marker)
        spaceAt(p) == p <= Len(line) /\ IsSpace(line[p])
        w == IF StartsWithAt(line, e, QualNextLine)
                  /\ spaceAt(e + Len(QualNextLine))
             THEN e + Len(QualNextLine)
             ELSE IF StartsWithAt(line, e, QualLine)
                       /\ spaceAt(e + Len(QualLine))
                  THEN e + Len(QualLine)
                  ELSE IF spaceAt(e) THEN e ELSE 0
    IN  IF w = 0 THEN NoMatch
        ELSE
          LET c   == SkipSpaces(line, w)
              brk == FirstOf(line, c, LineTerminators)
              end == IF brk = 0 THEN Len(line) ELSE brk - 1
          IN  [ok |-> TRUE, rulesStr |-> SubSeq(line, c, end), next |-> end + 1]

\* String.prototype.match without the g flag: the leftmost match.
LineMatch(line) ==
  LET hits == {i \in 1..Len(line) : LineMatchAt(line, i).ok}
  IN  IF hits = {} THEN NoMatch
      ELSE LineMatchAt(line, CHOOSE i \in hits : \A k \in hits : i <= k)

(***************************************************************************)
(* Raw rule entries of a resolved ESLint config (ESLint.ConfigData.rules): *)
(* a bare severity or an array whose first element is the severity.  kind  *)
(* is "undefined" (no entry), "num", "str", "array" or "object"; items     *)
(* holds an array's elements.                                              *)
(***************************************************************************)
Elem(kind, num, str) == [kind |-> kind, num |-> num, str |-> str]
Undefined == Elem("undefined", 0, "")
Raw(e, items) == [kind |-> e.kind, num |-> e.num, str |-> e.str, items |-> items]
RawNone == Raw(Undefined, <<>>)
RawNum(n) == Raw(Elem("num", n, ""), <<>>)
RawStr(t) == Raw(Elem("str", 0, t), <<>>)
RawArray(items) == Raw(Elem("array", 0, ""), items)

\* JavaScript truthiness of a raw entry (the test !rule).
Falsy(raw) ==
  \/ raw.kind = "undefined"
  \/ raw.kind = "num" /\ raw.num = 0
  \/ raw.kind = "str" /\ raw.str = ""

\* config.rules?.[ruleName]
RuleEntry(config, ruleName) ==
  IF ruleName \in DOMAIN config THEN config[ruleName] ELSE RawNone

\* Array.isArray(rule) ? rule[0] : rule
SeverityOf(raw) ==
  IF raw.kind = "array"
  THEN IF Len(raw.items) > 0 THEN raw.items[1] ELSE Undefined
  ELSE Elem(raw.kind, raw.num, raw.str)

\* A mutant of LevelOfRaw: an array is classified by its last element.
LevelOfRawLastElement(raw) ==
  IF Falsy(raw) THEN "off"
  ELSE LET severity == IF raw.kind = "array"
                       THEN IF Len(raw.items) > 0 THEN raw.items[Len(raw.items)]
                            ELSE Undefined
                       ELSE Elem(raw.kind, raw.num, raw.str)
       IN  IF severity = Elem("str", 0, "off") \/ severity = Elem("num", 0, "")
           THEN "off"
           ELSE IF severity = Elem("str", 0, "warn") \/ severity = Elem("num", 1, "")
           THEN "warning"
           ELSE IF severity = Elem("str", 0, "error") \/ severity = Elem("num", 2, "")
           THEN "error"
           ELSE "off"

\* getRuleLevel past the lookup: the level of a raw entry.
LevelOfRaw(raw) ==
  IF Falsy(raw) THEN "off"
  ELSE LET severity == SeverityOf(raw)
       IN  IF severity = Elem("str", 0, "off") \/ severity = Elem("num", 0, "")
           THEN "off"
           ELSE IF severity = Elem("str", 0, "warn") \/ severity = Elem("num", 1, "")
           THEN "warning"
           ELSE IF severity = Elem("str", 0, "error") \/ severity = Elem("num", 2, "")
           THEN "error"
           ELSE "off"

\* getRuleLevel(config, ruleName)
GetRuleLevel(config, ruleName) == LevelOfRaw(RuleEntry(config, ruleName))

(***************************************************************************)
(* The environment's catalogue: rule names, resolved configs, file texts.  *)
(***************************************************************************)
NoConsole == <<"n","o","-","c","o","n","s","o","l","e">>
NoUnusedVars == <<"n","o","-","u","n","u","s","e","d","-","v","a","r","s">>
Semi == <<"s","e","m","i">>
Curly == <<"c","u","r","l","y">>

Options == Elem("object", 0, "")

\* Resolved configs calculateConfigForFile may return (rules by name).
ConfigCatalog ==
  << \* string severities, one of them unrecognized
     (NoConsole :> RawStr("error")) @@ (NoUnusedVars :> RawStr("warn"))
       @@ (Semi :> RawStr("off")) @@ (Curly :> RawStr("fatal")),
     \* numeric severities, one of them unrecognized
     (NoConsole :> RawNum(1)) @@ (NoUnusedVars :> RawNum(0))
       @@ (Semi :> RawNum(2)) @@ (Curly :> RawNum(3)),
     \* severities with options, and an empty array
     (NoConsole :> RawArray(<<Elem("str", 0, "error"), Options>>))
       @@ (NoUnusedVars :> RawArray(<<Elem("num", 1, ""), Options>>))
       @@ (Semi :> RawArray(<<Elem("str", 0, "warn"), Elem("str", 0, "always")>>))
       @@ (Curly :> RawArray(<<>>))
  >>

ConfigIds == 1..Len(ConfigCatalog)

\* Fragments of file text.
Sp == <<" ">>
Nl == <<"\n">>
Comma == <<",">>
LineComment == <<"/","/">>
BlockClose == <<"*","/">>
Dashes == <<"-","-">>
Reason == <<"l","o","g","g","i","n","g">>
Code == <<"x","(",")",";">>

\* 1: no directive
TextClean == Code \o Nl

\* 2: // eslint-disable-next-line no-console -- logging
TextLineWithReason ==
  LineComment \o Sp \o Marker \o QualNextLine \o Sp \o NoConsole \o Sp
    \o Dashes \o Sp \o Reason \o Nl \o Code

\* 3: x(); // eslint-disable-line no-console, semi, curly
TextLineThreeRules ==
  Code \o Sp \o LineComment \o Sp \o Marker \o QualLine \o Sp \o NoConsole
    \o Comma \o Sp \o Semi \o Comma \o Sp \o Curly

\* 4: a one-rule block comment at the top of the file
TextBlockOneRule ==
  BlockOpen \o Sp \o Marker \o Sp \o NoUnusedVars \o Sp \o BlockClose
    \o Nl \o Code

\* 5: a two-rule block comment (no-console, no-unused-vars) on line 2
TextBlockTwoRules ==
  Code \o Nl \o BlockOpen \o Sp \o Marker \o Sp \o NoConsole \o Comma \o Sp
    \o NoUnusedVars \o Sp \o BlockClose

\* 6: // eslint-disable-next-line no-console, semi -- logging
TextLineTwoRulesWithReason ==
  LineComment \o Sp \o Marker \o QualNextLine \o Sp \o NoConsole \o Comma
    \o Sp \o Semi \o Sp \o Dashes \o Sp \o Reason \o Nl \o Code

\* 7: a two-rule block comment (semi, no-unused-vars) spread over three lines
TextBlockOverLines ==
  BlockOpen \o Sp \o Marker \o Nl \o Sp \o Semi \o Comma \o Nl \o Sp
    \o NoUnusedVars \o Sp \o BlockClose \o Nl \o Code

\* File texts readFileSync may return.
ContentCatalog ==
  << TextClean, TextLineWithReason, TextLineThreeRules, TextBlockOneRule,
     TextBlockTwoRules, TextLineTwoRulesWithReason, TextBlockOverLines >>

ContentIds == 1..Len(ContentCatalog)

(***************************************************************************)
(* The scan of one file: lines 114-159 of runChecker.  A named rule is a   *)
(* DisabledRule together with the directive it was read from (form, src),  *)
(* which the code does not keep: the model keeps it beside disabledRules   *)
(* so that properties can speak of a finding's directive.                  *)
(***************************************************************************)
Named(file, line, column, rule, form, src) ==
  [file |-> file, line |-> line, column |-> column, type |-> "off",
   rule |-> rule, form |-> form, src |-> src]

\* A DisabledRule: the five fields the code pushes.
DisabledRule(n) ==
  [file |-> n.file, line |-> n.line, column |-> n.column, type |-> n.type,
   rule |-> n.rule]

\* The directive a finding was read from.
Origin(n) == [form |-> n.form, src |-> n.src]

RECURSIVE Flatten(_)
Flatten(ss) == IF ss = <<>> THEN <<>> ELSE Head(ss) \o Flatten(Tail(ss))

\* A mutant of Report: every named rule is pushed, whatever its level.
ReportUnfiltered(config, found) ==
  [k \in 1..Len(found) |->
     [found[k] EXCEPT !.type = GetRuleLevel(config, found[k].rule)]]

\* The body of both "for (const rule of rules)" loops: the level of each
\* named rule is looked up, and the rules that are off are skipped.
Report(config, found) ==
  SelectSeq([k \in 1..Len(found) |->
               [found[k] EXCEPT !.type = GetRuleLevel(config, found[k].rule)]],
            LAMBDA f : f.type /= "off")

\* The rules the block comments of the text name, each at line 1, column 1.
BlockNamed(relFile, content) ==
  LET captures == BlockMatches(content)
  IN  Flatten([k \in 1..Len(captures) |->
        LET rules == ParseRules(captures[k])
        IN  [j \in 1..Len(rules) |->
               Named(relFile, 1, 1, rules[j], "block", captures[k])]])

\* The rules the lines of the text name, each at its line and at the column
\* of the first occurrence of its name in the line (n is idx + 1).
LineNamed(relFile, content) ==
  LET lines == Split(content, "\n")
  IN  Flatten([n \in 1..Len(lines) |->
        LET match == LineMatch(lines[n])
            rules == IF match.ok THEN ParseRules(match.rulesStr) ELSE <<>>
        IN  [j \in 1..Len(rules) |->
               Named(relFile, n, IndexOf(lines[n], rules[j]) + 1, rules[j],
                     "line", match.rulesStr)]])

\* Every rule name the scan of the text looks up, in the order of the calls
\* of getRuleLevel.
NamedRules(relFile, content) ==
  BlockNamed(relFile, content) \o LineNamed(relFile, content)

\* What the scan of one file appends to disabledRules.
ScanFile(relFile, config, content) ==
  Report(config, BlockNamed(relFile, content))
    \o Report(config, LineNamed(relFile, content))

\* The file of a finding before the loop copies the file's path into it.
NoFile == [dir |-> "", name |-> 0]

\* The calls of getRuleLevel the scan of one file makes: raw entry and level.
ScanLookups(config, content) ==
  LET named == NamedRules(NoFile, content)
  IN  { [raw |-> RuleEntry(config, named[j].rule),
         level |-> GetRuleLevel(config, named[j].rule)] : j \in 1..Len(named) }

\* The scan depends on the file's text and config alone (its path is only
\* copied into the findings), so it is computed once per text and config of
\* the catalogue.  A read that throws yields no text.

\* f itself (f @@ <<>> = f), held as an enumerated table.
Table(f) == f @@ <<>>

ScanResult ==
  Table([cfg \in ConfigIds, c \in ContentIds \cup {0} |->
           IF c = 0 THEN <<>>
           ELSE ScanFile(NoFile, ConfigCatalog[cfg], ContentCatalog[c])])

LookupResult ==
  Table([cfg \in ConfigIds, c \in ContentIds \cup {0} |->
           IF c = 0 THEN {}
           ELSE ScanLookups(ConfigCatalog[cfg], ContentCatalog[c])])

(***************************************************************************)
(* Files.  The glob yields absolute paths under targetDir; a finding names *)
(* its file relative to targetDir.                                         *)
(***************************************************************************)
TargetDir == "/project"

\* The k-th file the glob discovers (globSync, absolute: true).
AbsPath(k) ==
  [root |-> TargetDir, dir |-> IF k % 2 = 1 THEN "scripts" ELSE "src",
   name |-> k]

\* allFiles, in discovery order.
AllFiles == [k \in 1..MaxFiles |-> AbsPath(k)]

\* path.relative(targetDir, file) of a file under targetDir.
Relative(root, file) ==
  IF file.root = root THEN [dir |-> file.dir, name |-> file.name]
  ELSE [dir |-> "..", name |-> file.name]

\* A mutant of JoinedFiles: the results are collected as the checks settle.
JoinedFilesAsSettled(results, order) ==
  LET inOrder == [k \in 1..Len(order) |-> order[k]]
      kept    == SelectSeq(inOrder, LAMBDA k : results[k] /= "null")
  IN  [j \in 1..Len(kept) |-> AllFiles[kept[j]]]

\* (await Promise.all(allFiles.map(...))).filter((file) => file !== null):
\* Promise.all yields the results in the order of allFiles, whatever the
\* order the checks settled in.
JoinedFiles(results, order) ==
  LET inOrder == [k \in 1..Len(results) |-> k]
      kept    == SelectSeq(inOrder, LAMBDA k : results[k] /= "null")
  IN  [j \in 1..Len(kept) |-> AllFiles[kept[j]]]

\* What fs.readFileSync yields: a text of the catalogue, or it throws.
ReadError == 0

\* A mutant of ReadThrows: a failed read is swallowed (the file reads empty).
ReadNeverThrows(c) == FALSE

ReadThrows(c) == c = ReadError

(***************************************************************************)
(* The report: lines 163-198 of runChecker.  A printed line is            *)
(* [kind, file, item, a, b]: the summary carries the two counts, an item   *)
(* line its finding and the width its position is padded to.              *)
(***************************************************************************)
NoItem ==
  [file |-> NoFile, line |-> 0, column |-> 0, type |-> "", rule |-> <<>>]

Out(kind, file, item, a, b) ==
  [kind |-> kind, file |-> file, item |-> item, a |-> a, b |-> b]

\* The length of the decimal numeral of n.
RECURSIVE Digits(_)
Digits(n) == IF n < 10 THEN 1 ELSE 1 + Digits(n \div 10)

\* `${item.line}:${item.column}`.length
PosLength(item) ==
  (IF item.line < 0 THEN 1 + Digits(-item.line) ELSE Digits(item.line)) + 1
    + (IF item.column < 0 THEN 1 + Digits(-item.column) ELSE Digits(item.column))

Max(S) == CHOOSE m \in S : \A n \in S : n <= m

\* The keys of grouped, in insertion order: each file at its first finding.
GroupKeys(rules) ==
  LET firstAt == SelectSeq([k \in 1..Len(rules) |-> k],
                   LAMBDA k : \A j \in 1..(k - 1) : rules[j].file /= rules[k].file)
  IN  [k \in 1..Len(firstAt) |-> rules[firstAt[k]].file]

\* A mutant of GroupLines: only the error findings of a file are printed.
GroupLinesErrorsOnly(file, rules) ==
  LET group == SelectSeq(rules, LAMBDA r : r.file = file /\ r.type = "error")
      width == IF group = <<>> THEN 3
               ELSE Max({PosLength(group[k]) : k \in 1..Len(group)}) + 3
  IN  <<Out("file", file, NoItem, 0, 0)>>
        \o [k \in 1..Len(group) |-> Out("item", file, group[k], width, 0)]
        \o <<Out("blank", NoFile, NoItem, 0, 0)>>

\* What Object.entries(grouped).forEach prints for one file.
GroupLines(file, rules) ==
  LET group == SelectSeq(rules, LAMBDA r : r.file = file)
      width == Max({PosLength(group[k]) : k \in 1..Len(group)}) + 3
  IN  <<Out("file", file, NoItem, 0, 0)>>
        \o [k \in 1..Len(group) |-> Out("item", file, group[k], width, 0)]
        \o <<Out("blank", NoFile, NoItem, 0, 0)>>

\* Everything lines 171-198 print.
ReportLines(rules) ==
  LET errorCount   == Len(SelectSeq(rules, LAMBDA r : r.type = "error"))
      warningCount == Len(SelectSeq(rules, LAMBDA r : r.type = "warning"))
      keys         == GroupKeys(rules)
  IN  <<Out("summary", NoFile, NoItem, errorCount, warningCount)>>
        \o Flatten([k \in 1..Len(keys) |-> GroupLines(keys[k], rules)])

(***************************************************************************)
(* The allowlist file .eslint-disable-allow.json of the project root and   *)
(* the "-- reason" of a directive, as the README describes them.  A        *)
(* pattern "<dir>/**" is held as its dir.  runChecker reads neither.       *)
(***************************************************************************)
PolicyCatalog ==
  { [present |-> FALSE, allowedRules |-> {}, allowedPatterns |-> {}],
    [present |-> TRUE, allowedRules |-> {NoConsole},
     allowedPatterns |-> {"scripts"}] }

\* Whether a relative path matches the glob "<dir>/**".
MatchesPattern(relFile, pattern) == relFile.dir = pattern

\* Whether the rule list of a directive carries a reason: text that is not
\* blank after the first "--".
HasReason(src) ==
  LET at == IndexOf(src, Dashes)
  IN  at >= 0 /\ Trim(SubSeq(src, at + 3, Len(src))) /= <<>>

(***************************************************************************)
(* State.                                                                  *)
(***************************************************************************)
VARIABLES
  pc,             \* where main / runChecker stands
  policy,         \* the allowlist file of the project root
  ignoreResult,   \* per discovered file: the result of its ignore check
  settled,        \* the ignore checks settled so far, in settling order
  files,          \* the files that are not ignored (line 97)
  idx,            \* position in files of the next file of the for loop
  fileConfig,     \* per discovered file: the config the engine resolved
  fileContent,    \* per discovered file: what reading it yielded
  disabledRules,  \* the findings (line 106)
  origins,        \* per finding, the directive it was read from
  lookups,        \* the calls of getRuleLevel made: raw entry and level
  printed,        \* what console.log has printed
  stderr,         \* what console.error has printed
  outcome,        \* how runChecker ended
  exitCode        \* the code given to process.exit

vars == <<pc, policy, ignoreResult, settled, files, idx, fileConfig,
          fileContent, disabledRules, origins, lookups, printed, stderr,
          outcome, exitCode>>

NotAsked == -1

Init ==
  /\ pc = "main"
  /\ policy \in PolicyCatalog
  /\ ignoreResult = [k \in 1..MaxFiles |-> "pending"]
  /\ settled = <<>>
  /\ files = <<>>
  /\ idx = 1
  /\ fileConfig = [k \in 1..MaxFiles |-> NotAsked]
  /\ fileContent = [k \in 1..MaxFiles |-> NotAsked]
  /\ disabledRules = <<>>
  /\ origins = <<>>
  /\ lookups = {}
  /\ printed = <<>>
  /\ stderr = <<>>
  /\ outcome = "none"
  /\ exitCode = NotAsked

(***************************************************************************)
(* main: no ESLint config in the working directory.  The message is built  *)
(* but never printed; the process exits with code 1.                       *)
(***************************************************************************)
MainNoConfig ==
  /\ pc = "main"
  /\ \E hasFlatConfig, hasLegacyConfig \in BOOLEAN :
       /\ ~hasFlatConfig /\ ~hasLegacyConfig
       /\ exitCode' = 1
       /\ pc' = "exited"
  /\ UNCHANGED <<policy, ignoreResult, settled, files, idx, fileConfig,
                 fileContent, disabledRules, origins, lookups, printed,
                 stderr, outcome>>

(***************************************************************************)
(* main calls runChecker, which prints its banner, builds the engine,      *)
(* globs the files and starts one ignore check per file.                   *)
(***************************************************************************)
StartChecker ==
  /\ pc = "main"
  /\ \E hasFlatConfig, hasLegacyConfig \in BOOLEAN :
       /\ hasFlatConfig \/ hasLegacyConfig
       /\ printed' = Append(printed, Out("banner", NoFile, NoItem, 0, 0))
       /\ pc' = "ignore"
  /\ UNCHANGED <<policy, ignoreResult, settled, files, idx, fileConfig,
                 fileContent, disabledRules, origins, lookups, stderr,
                 outcome, exitCode>>

(***************************************************************************)
(* One ignore check settles: eslint.isPathIgnored(file) answers, and the   *)
(* callback yields null or the file.  The checks settle in any order.      *)
(***************************************************************************)
SettleIgnoreCheck(k) ==
  /\ pc = "ignore"
  /\ ignoreResult[k] = "pending"
  /\ \E isIgnored \in BOOLEAN :
       ignoreResult' =
         [ignoreResult EXCEPT ![k] = IF isIgnored THEN "null" ELSE "file"]
  /\ settled' = Append(settled, k)
  /\ UNCHANGED <<pc, policy, files, idx, fileConfig, fileContent,
                 disabledRules, origins, lookups, printed, stderr, outcome,
                 exitCode>>

(***************************************************************************)
(* Promise.all resolves once every check has settled; the nulls are        *)
(* filtered out and the for loop starts.                                   *)
(***************************************************************************)
Join ==
  /\ pc = "ignore"
  /\ \A k \in 1..MaxFiles : ignoreResult[k] /= "pending"
  /\ files' = JoinedFiles(ignoreResult, settled)
  /\ idx' = 1
  /\ pc' = "loop"
  /\ UNCHANGED <<policy, ignoreResult, settled, fileConfig, fileContent, disabledRules,
                 origins, lookups, printed, stderr, outcome, exitCode>>

(***************************************************************************)
(* One turn of "for (const file of files)": the engine resolves the        *)
(* file's config, the file is read, and both passes push their findings.   *)
(* A read that throws ends runChecker there.                               *)
(***************************************************************************)
ProcessFile ==
  /\ pc = "loop"
  /\ idx <= Len(files)
  /\ \E cfg \in ConfigIds, c \in ContentIds \cup {ReadError} :
       LET file    == files[idx]
           k       == file.name
           relFile == Relative(TargetDir, file)
           pushed  == ScanResult[cfg, c]
       IN  /\ fileConfig' = [fileConfig EXCEPT ![k] = cfg]
           /\ fileContent' = [fileContent EXCEPT ![k] = c]
           /\ IF ReadThrows(c)
              THEN /\ outcome' = "threw-io"
                   /\ pc' = "done"
                   /\ UNCHANGED <<idx, disabledRules, origins, lookups>>
              ELSE /\ disabledRules' = disabledRules
                        \o [j \in 1..Len(pushed) |->
                              [DisabledRule(pushed[j]) EXCEPT !.file = relFile]]
                   /\ origins' = origins
                        \o [j \in 1..Len(pushed) |-> Origin(pushed[j])]
                   /\ lookups' = lookups \cup LookupResult[cfg, c]
                   /\ idx' = idx + 1
                   /\ UNCHANGED <<pc, outcome>>
  /\ UNCHANGED <<policy, ignoreResult, settled, files, printed, stderr,
                 exitCode>>

(***************************************************************************)
(* After the loop, with findings: the summary and the grouped report are   *)
(* printed (lines 163-198).                                                *)
(***************************************************************************)
PrintReport ==
  /\ pc = "loop"
  /\ idx > Len(files)
  /\ Len(disabledRules) > 0
  /\ printed' = printed \o ReportLines(disabledRules)
  /\ pc' = "verdict"
  /\ UNCHANGED <<policy, ignoreResult, settled, files, idx, fileConfig,
                 fileContent, disabledRules, origins, lookups, stderr,
                 outcome, exitCode>>

(***************************************************************************)
(* After the loop, without findings (lines 209-211).                       *)
(***************************************************************************)
PrintNoneFound ==
  /\ pc = "loop"
  /\ idx > Len(files)
  /\ Len(disabledRules) = 0
  /\ printed' = Append(printed, Out("none-found", NoFile, NoItem, 0, 0))
  /\ outcome' = "returned"
  /\ pc' = "done"
  /\ UNCHANGED <<policy, ignoreResult, settled, files, idx, fileConfig,
                 fileContent, disabledRules, origins, lookups, stderr,
                 exitCode>>

\* disabledRules.some((item) => item.type === 'error')
ShouldThrow(rules) == \E k \in 1..Len(rules) : rules[k].type = "error"

(***************************************************************************)
(* The verdict (lines 200-208): an error finding throws, otherwise the     *)
(* warnings-only notice is printed and runChecker returns.                 *)
(***************************************************************************)
Verdict ==
  /\ pc = "verdict"
  /\ IF ShouldThrow(disabledRules)
     THEN /\ outcome' = "threw-disabled"
          /\ UNCHANGED printed
     ELSE /\ outcome' = "returned"
          /\ printed' = Append(printed, Out("only-warnings", NoFile, NoItem, 0, 0))
  /\ pc' = "done"
  /\ UNCHANGED <<policy, ignoreResult, settled, files, idx, fileConfig,
                 fileContent, disabledRules, origins, lookups, stderr,
                 exitCode>>

(***************************************************************************)
(* main after runChecker: exit 0 when it returned; when it threw, the      *)
(* message goes to console.error and the process exits with code 1.        *)
(***************************************************************************)
Exit ==
  /\ pc = "done"
  /\ IF outcome = "returned"
     THEN /\ exitCode' = 0
          /\ UNCHANGED stderr
     ELSE /\ exitCode' = 1
          /\ stderr' = Append(stderr, outcome)
  /\ pc' = "exited"
  /\ UNCHANGED <<policy, ignoreResult, settled, files, idx, fileConfig,
                 fileContent, disabledRules, origins, lookups, printed,
                 outcome>>

Next ==
  \/ MainNoConfig
  \/ StartChecker
  \/ \E k \in 1..MaxFiles : SettleIgnoreCheck(k)
  \/ Join
  \/ ProcessFile
  \/ PrintReport
  \/ PrintNoneFound
  \/ Verdict
  \/ Exit

Spec == Init /\ [][Next]_vars

(***************************************************************************)
(* Vocabulary of the properties.                                           *)
(***************************************************************************)
\* The discovered files the for loop has taken up so far.
Taken == {k \in 1..MaxFiles : fileContent[k] /= NotAsked}

\* The discovered files whose scan has pushed its findings.
Scanned == {k \in 1..MaxFiles : fileContent[k] \in ContentIds}

\* The findings of the k-th discovered file, and their positions.
FindingsAt(k) ==
  {i \in 1..Len(disabledRules) : disabledRules[i].file.name = k}

\* The resolved config of the file of a finding.
ConfigOfFinding(f) == ConfigCatalog[fileConfig[f.file.name]]

\* The three-way normalization of a raw severity as the specification
\* states it: an array counts by its first element.
StatedLevel(raw) ==
  LET token == IF raw.kind = "array"
               THEN IF raw.items = <<>> THEN Undefined ELSE Head(raw.items)
               ELSE Elem(raw.kind, raw.num, raw.str)
  IN  CASE token.kind = "undefined" -> "off"
        [] token.kind = "num" /\ token.num = 0 -> "off"
        [] token.kind = "str" /\ token.str = "off" -> "off"
        [] token.kind = "num" /\ token.num = 1 -> "warning"
        [] token.kind = "str" /\ token.str = "warn" -> "warning"
        [] token.kind = "num" /\ token.num = 2 -> "error"
        [] token.kind = "str" /\ token.str = "error" -> "error"
        [] OTHER -> "off"

\* justificationMissing of the i-th finding: its directive carries no reason.
JustificationMissing(i) == ~HasReason(origins[i].src)

\* The item lines printed so far, as findings.
PrintedItems ==
  LET items == SelectSeq(printed, LAMBDA l : l.kind = "item")
  IN  [i \in 1..Len(items) |-> items[i].item]

\* The lines of the report printed so far (everything but the banner).
PrintedReport == SelectSeq(printed, LAMBDA l : l.kind /= "banner")

Occurrences(x, seq) == Cardinality({i \in 1..Len(seq) : seq[i] = x})

\* Per text of the catalogue: the number of places the marker occurs at.
MarkerCount ==
  Table([c \in ContentIds |->
    Cardinality({i \in 1..Len(ContentCatalog[c]) :
                   StartsWithAt(ContentCatalog[c], i, Marker)})])

\* Per text of the catalogue: the rule names its block comments name, one
\* entry per naming.
BlockRuleNames ==
  Table([c \in ContentIds |->
    LET captures == BlockMatches(ContentCatalog[c])
    IN  Flatten([j \in 1..Len(captures) |-> ParseRules(captures[j])])])

\* The texts whose directives are all block comments.
BlockOnly(c) ==
  /\ MarkerCount[c] > 0
  /\ MarkerCount[c] = Len(BlockMatches(ContentCatalog[c]))

(***************************************************************************)
(* C1.  A run that reaches the verdict throws the business-rule error if   *)
(* and only if some finding has severity error and no justification; a run *)
(* whose error findings all carry a justification returns normally.        *)
(* The code throws on any error finding, justified or not.                 *)
(***************************************************************************)
C1_FailsIffUnjustifiedError ==
  outcome \in {"returned", "threw-disabled"} =>
    (outcome = "threw-disabled" <=>
       \E i \in 1..Len(disabledRules) :
         disabledRules[i].type = "error" /\ JustificationMissing(i))

(***************************************************************************)
(* C2.  No finding names a rule of the allowlist's allowedRules, and no    *)
(* finding lies in a file matching one of its allowedPatterns.  The code   *)
(* never reads the allowlist.                                              *)
(***************************************************************************)
C2_NoAllowlistedFinding ==
  \A i \in 1..Len(disabledRules) :
    /\ disabledRules[i].rule \notin policy.allowedRules
    /\ \A p \in policy.allowedPatterns :
         ~MatchesPattern(disabledRules[i].file, p)

(***************************************************************************)
(* C3.  A file whose text is the line                                      *)
(*   // eslint-disable-next-line no-console -- <reason>                    *)
(* with no-console resolved to error yields exactly one finding, for       *)
(* no-console, of severity error and with its justification present, and   *)
(* a run over such files alone does not fail.  The code looks up the whole *)
(* text after the marker, reason included, as one rule name.               *)
(***************************************************************************)
C3_LineWithReasonYieldsOneFinding ==
  LET case(k) ==
        /\ k \in Scanned
        /\ ContentCatalog[fileContent[k]] = TextLineWithReason
        /\ StatedLevel(RuleEntry(ConfigCatalog[fileConfig[k]], NoConsole))
             = "error"
  IN  /\ \A k \in 1..MaxFiles :
           case(k) =>
             /\ Cardinality(FindingsAt(k)) = 1
             /\ \A i \in FindingsAt(k) :
                  /\ disabledRules[i].rule = NoConsole
                  /\ disabledRules[i].type = "error"
                  /\ ~JustificationMissing(i)
      /\ (outcome /= "none" /\ Taken /= {} /\ \A k \in Taken : case(k))
           => outcome = "returned"

(***************************************************************************)
(* C4.  In a file whose directives are all block comments, every rule a    *)
(* block comment names whose severity is not off is reported exactly once  *)
(* per naming, at line 1, column 1.  The line pass of the code reads the   *)
(* block comment again and reports its rules (all but the last of a line)  *)
(* a second time at the comment's own line.                                *)
(***************************************************************************)
C4_BlockRuleReportedOnceAtTop ==
  \A k \in Scanned :
    BlockOnly(fileContent[k]) =>
      LET names  == BlockRuleNames[fileContent[k]]
          config == ConfigCatalog[fileConfig[k]]
      IN  \A j \in 1..Len(names) :
            StatedLevel(RuleEntry(config, names[j])) /= "off" =>
              /\ Cardinality({i \in FindingsAt(k) :
                                disabledRules[i].rule = names[j]})
                   = Occurrences(names[j], names)
              /\ \A i \in FindingsAt(k) :
                   disabledRules[i].rule = names[j] =>
                     disabledRules[i].line = 1 /\ disabledRules[i].column = 1

(***************************************************************************)
(* C5.  The command exits with code 1 whenever a disabled rule was found   *)
(* (the findings are not empty), and with code 0 only when none was.  The  *)
(* code exits with 0 when every finding is a warning.                      *)
(***************************************************************************)
C5_ExitOneWheneverFindings ==
  pc = "exited" =>
    /\ Len(disabledRules) > 0 => exitCode = 1
    /\ exitCode = 0 => Len(disabledRules) = 0

(***************************************************************************)
(* C6.  Every finding has severity warning or error, equal to the          *)
(* resolved severity of its rule in its own file's config; no finding      *)
(* exists for a rule that config leaves disabled.                          *)
(***************************************************************************)
C6_FindingsHaveResolvedSeverity ==
  \A i \in 1..Len(disabledRules) :
    LET f == disabledRules[i]
    IN  /\ f.type \in {"warning", "error"}
        /\ f.type = StatedLevel(RuleEntry(ConfigOfFinding(f), f.rule))

\* Two files name the same rule, which their configs resolve differently,
\* and some named rule was dropped as disabled.
C6_Witness ==
  /\ pc = "exited"
  /\ \E i, j \in 1..Len(disabledRules) :
       /\ disabledRules[i].rule = disabledRules[j].rule
       /\ disabledRules[i].file /= disabledRules[j].file
       /\ disabledRules[i].type = "error"
       /\ disabledRules[j].type = "warning"
  /\ \E l \in lookups : l.level = "off" /\ l.raw /= RawNone

(***************************************************************************)
(* C7.  getRuleLevel maps every raw entry to exactly one of off, warning,  *)
(* error: absent, 0 or "off" is off; 1 or "warn" is warning; 2 or "error"  *)
(* is error; any other token is off; an array counts by its first element  *)
(* alone.                                                                  *)
(***************************************************************************)
C7_LevelNormalization ==
  \A l \in lookups :
    /\ l.level \in {"off", "warning", "error"}
    /\ l.level = StatedLevel(l.raw)

\* One run has looked up an array with options, an unrecognized token and
\* a name the config does not hold.
C7_Witness ==
  /\ \E l \in lookups :
       l.raw.kind = "array" /\ Len(l.raw.items) = 2 /\ l.level /= "off"
  /\ \E l \in lookups : l.raw = RawStr("fatal") /\ l.level = "off"
  /\ \E l \in lookups : l.raw = RawNone /\ l.level = "off"

(***************************************************************************)
(* C8.  When the run is about to throw, and once it has thrown, the        *)
(* unjustified-suppression failure, the whole grouped report is printed:   *)
(* the summary, and for every file its header and one line per finding,    *)
(* errors and warnings alike.                                              *)
(***************************************************************************)
C8_FullReportBeforeThrow ==
  (pc = "verdict" \/ outcome = "threw-disabled") =>
    /\ Len(PrintedItems) = Len(disabledRules)
    /\ \A i \in 1..Len(disabledRules) :
         /\ Occurrences(disabledRules[i], PrintedItems)
              = Occurrences(disabledRules[i], disabledRules)
         /\ \E j \in 1..Len(printed) :
              printed[j].kind = "file" /\ printed[j].file = disabledRules[i].file
    /\ \E j \in 1..Len(printed) : printed[j].kind = "summary"

\* A run has thrown after findings of both severities in two files.
C8_Witness ==
  /\ outcome = "threw-disabled"
  /\ \E i, j \in 1..Len(disabledRules) :
       /\ disabledRules[i].file /= disabledRules[j].file
       /\ disabledRules[i].type = "error"
       /\ disabledRules[j].type = "warning"

(***************************************************************************)
(* C9.  Once the read of a file has failed, runChecker has thrown, nothing *)
(* of the report is printed (not even the findings of the files scanned    *)
(* before), and the process does not exit with code 0.                     *)
(***************************************************************************)
C9_ReadFailureIsFatal ==
  (\E k \in 1..MaxFiles : fileContent[k] = ReadError) =>
    /\ outcome = "threw-io"
    /\ PrintedReport = <<>>
    /\ pc \in {"done", "exited"}
    /\ pc = "exited" => exitCode = 1

\* The second file failed to read after the first had yielded findings.
C9_Witness ==
  /\ pc = "exited"
  /\ \E k \in 1..MaxFiles : fileContent[k] = ReadError
  /\ Len(disabledRules) > 0

(***************************************************************************)
(* C10.  No file is taken up before every ignore check has settled; the    *)
(* loop's files are the discovered files the engine does not ignore, in    *)
(* discovery order, whatever order the checks settled in; the files taken  *)
(* up are a prefix of them; no finding lies in an ignored file, and the    *)
(* findings are grouped by file in discovery order.                        *)
(***************************************************************************)
C10_JoinKeepsDiscoveryOrder ==
  /\ Taken /= {} => \A k \in 1..MaxFiles : ignoreResult[k] /= "pending"
  /\ (pc \in {"loop", "verdict", "done"} \/ outcome /= "none") =>
       /\ \A k \in 1..MaxFiles : ignoreResult[k] /= "pending"
       /\ {files[i].name : i \in 1..Len(files)}
            = {k \in 1..MaxFiles : ignoreResult[k] = "file"}
       /\ \A i, j \in 1..Len(files) : i < j => files[i].name < files[j].name
       /\ Taken = {files[i].name :
                     i \in 1..(IF outcome = "threw-io" THEN idx ELSE idx - 1)}
  /\ \A i \in 1..Len(disabledRules) :
       ignoreResult[disabledRules[i].file.name] = "file"
  /\ \A i, j \in 1..Len(disabledRules) :
       i < j => disabledRules[i].file.name <= disabledRules[j].file.name

\* The checks settled against the discovery order, and both files yielded
\* findings.
C10_Witness ==
  /\ pc = "exited"
  /\ \E a, b \in 1..Len(settled) : a < b /\ settled[a] > settled[b]
  /\ \E i, j \in 1..Len(disabledRules) :
       disabledRules[i].file /= disabledRules[j].file

====
